---- MODULE Spec2Model ----
(***************************************************************************)
(* A model of script.js, the IndiaPanchangam page script: the line parser, *)
(* the fixed-offset time conversion, the current/next interval query and   *)
(* the asynchronous main() that fetches panchangam.txt and renders it.     *)
(*                                                                         *)
(* Representation.                                                         *)
(*  - A JavaScript string is a TLA+ string; characters are one-character   *)
(*    strings taken with SubSeq.                                           *)
(*  - A value that may be null is a sequence: <<>> is null, <<v>> is v.    *)
(*  - A Date is its time value, an integer number of milliseconds.  TLC's  *)
(*    integers are 32 bits wide, so instants are counted from TimeOrigin   *)
(*    (2025/12/15 00:00 UTC, 24 days of range either side) and not from    *)
(*    1970-01-01.  The code only adds offsets to instants, subtracts and   *)
(*    compares them, and reads calendar fields; the first three do not     *)
(*    depend on the origin and the calendar operators add the origin back. *)
(***************************************************************************)
EXTENDS Integers, Sequences, FiniteSets, TLC

VARIABLES
    pc,        \* position of main(): see the actions below
    tz,        \* host (browser) local-time offset from UTC, in minutes
    locale,    \* host (browser) default locale
    text,      \* the body of panchangam.txt served to fetch
    res,       \* outcome of fetch: "pending", "ok", "notok", "rejected"
               \* ("ok" and "notok" are res.ok of a settled response)
    clock,     \* the real clock: the instant `new Date()` would return
    now,       \* main's `now` (<<>> until sampled)
    samples,   \* how many times main has read the clock
    lines,     \* main's `lines`
    found,     \* per category, the result of findCurrentAndNext (<<>> before)
    nowArgs,   \* per category, the `now` arguments passed to the two helpers
    dom,       \* text content of the elements the page has (by id)
    fn,        \* function applied by the pure-function specification
    input,     \* its arguments
    output     \* its result (<<>> until applied)

vars == <<pc, tz, locale, text, res, clock, now, samples, lines, found, nowArgs, dom,
          fn, input, output>>

None == <<>>
Some(v) == <<v>>

-----------------------------------------------------------------------------
(* Strings *)

CharAt(s, i) == SubSeq(s, i, i)

\* ECMAScript WhiteSpace and LineTerminator characters that TLA+ strings can
\* hold: what String.prototype.trim strips and what the regexp class \s matches.
\* The sixth member is U+000B, the vertical tab, written as the character itself.
WhiteSpace == {" ", "\t", "\n", "\r", "\f", ""}

\* The characters the regexp `.` does not match.
LineTerminators == {"\n", "\r"}

Digits == "0123456789"

IsDigit(c) == \E i \in 1..10 : CharAt(Digits, i) = c

DigitValue(c) == (CHOOSE i \in 1..10 : CharAt(Digits, i) = c) - 1

UpperLetters == "ABCDEFGHIJKLMNOPQRSTUVWXYZ"
LowerLetters == "abcdefghijklmnopqrstuvwxyz"

LowerChar(c) ==
    IF \E i \in 1..26 : CharAt(UpperLetters, i) = c
    THEN CharAt(LowerLetters, CHOOSE i \in 1..26 : CharAt(UpperLetters, i) = c)
    ELSE c

RECURSIVE toLowerCase(_)
toLowerCase(s) ==
    IF s = "" THEN "" ELSE LowerChar(CharAt(s, 1)) \o toLowerCase(Tail(s))

AllWhite(s) == \A i \in 1..Len(s) : CharAt(s, i) \in WhiteSpace

trim(s) ==
    IF AllWhite(s) THEN ""
    ELSE LET first == CHOOSE i \in 1..Len(s) :
                        /\ CharAt(s, i) \notin WhiteSpace
                        /\ \A j \in 1..(i - 1) : CharAt(s, j) \in WhiteSpace
             last  == CHOOSE i \in 1..Len(s) :
                        /\ CharAt(s, i) \notin WhiteSpace
                        /\ \A j \in (i + 1)..Len(s) : CharAt(s, j) \in WhiteSpace
         IN  SubSeq(s, first, last)

startsWith(s, p) == Len(p) <= Len(s) /\ SubSeq(s, 1, Len(p)) = p

endsWith(s, p) == Len(p) <= Len(s) /\ SubSeq(s, Len(s) - Len(p) + 1, Len(s)) = p

\* String.prototype.split with a one-character separator.
RECURSIVE split(_, _)
split(s, sep) ==
    IF \A i \in 1..Len(s) : CharAt(s, i) # sep
    THEN <<s>>
    ELSE LET i == CHOOSE k \in 1..Len(s) :
                    CharAt(s, k) = sep /\ \A j \in 1..(k - 1) : CharAt(s, j) # sep
         IN  <<SubSeq(s, 1, i - 1)>> \o split(SubSeq(s, i + 1, Len(s)), sep)

\* Array.prototype.join.
RECURSIVE join(_, _)
join(parts, sep) ==
    IF Len(parts) = 0 THEN ""
    ELSE IF Len(parts) = 1 THEN parts[1]
    ELSE parts[1] \o sep \o join(Tail(parts), sep)

\* text.split(/\r?\n/): cut at every "\n", dropping a "\r" right before it.
splitLines(t) ==
    LET raw == split(t, "\n")
        strip(i) == IF i < Len(raw) /\ endsWith(raw[i], "\r")
                    THEN SubSeq(raw[i], 1, Len(raw[i]) - 1)
                    ELSE raw[i]
    IN  [i \in 1..Len(raw) |-> strip(i)]

\* Number(s) for a string of decimal digits.
RECURSIVE Number(_)
Number(s) ==
    IF s = "" THEN 0
    ELSE 10 * Number(SubSeq(s, 1, Len(s) - 1)) + DigitValue(CharAt(s, Len(s)))

\* String(n).padStart(2, "0") for n >= 0; a negative n is already 2 long.
padStart2(n) == IF 0 <= n /\ n < 10 THEN "0" \o ToString(n) ELSE ToString(n)

-----------------------------------------------------------------------------
(* Time: the ECMAScript Date algorithms the script relies on *)

MS_PER_MIN == 60 * 1000
MS_PER_HOUR == 60 * MS_PER_MIN
PST_TO_UTC_H == 8
UTC_TO_IST_H == 5
UTC_TO_IST_M == 30

MsPerDay == 24 * MS_PER_HOUR

\* ECMAScript DayFromYear(y): the day number of January 1st of year y.
DayFromYear(y) ==
    365 * (y - 1970) + ((y - 1969) \div 4) - ((y - 1901) \div 100)
        + ((y - 1601) \div 400)

InLeapYear(y) == (y % 4 = 0 /\ y % 100 # 0) \/ y % 400 = 0

\* Days of the year before month mn (0 = January), ECMAScript MonthFromTime's table.
DaysBeforeMonth(y, mn) ==
    LET leap == IF InLeapYear(y) THEN 1 ELSE 0
        tab  == <<0, 31, 59 + leap, 90 + leap, 120 + leap, 151 + leap, 181 + leap,
                  212 + leap, 243 + leap, 273 + leap, 304 + leap, 334 + leap>>
    IN  tab[mn + 1]

\* ECMAScript MakeDay(year, month, date): month is 0-based and may overflow.
MakeDay(year, month, date) ==
    LET ym == year + (month \div 12)
        mn == month % 12
    IN  DayFromYear(ym) + DaysBeforeMonth(ym, mn) + date - 1

\* Day number of the instant that the model counts milliseconds from:
\* 2025/12/15 00:00 UTC.
TimeOrigin == MakeDay(2025, 12 - 1, 15)

\* Date.UTC(year, month, date, hours, minutes, seconds): years 0..99 mean
\* 1900..1999.
DateUTC6(year, month, date, hours, minutes, seconds) ==
    LET yr == IF 0 <= year /\ year <= 99 THEN 1900 + year ELSE year
    IN  (MakeDay(yr, month, date) - TimeOrigin) * MsPerDay
            + hours * MS_PER_HOUR + minutes * MS_PER_MIN + seconds * 1000

\* Date.UTC called with five arguments: seconds default to 0.
DateUTC(year, month, date, hours, minutes) ==
    DateUTC6(year, month, date, hours, minutes, 0)

\* LocalTime(t): the host's wall clock at instant t, as a time value.
LocalTime(t) == t + tz * MS_PER_MIN

Day(t) == (t \div MsPerDay) + TimeOrigin

TimeWithinDay(t) == t % MsPerDay

YearFromDay(day) ==
    CHOOSE y \in 1970..2100 :
        DayFromYear(y) <= day /\ day < DayFromYear(y + 1)

MonthFromDay(day) ==
    LET y == YearFromDay(day)
        dayInYear == day - DayFromYear(y)
    IN  CHOOSE mn \in 0..11 :
            /\ DaysBeforeMonth(y, mn) <= dayInYear
            /\ (mn = 11 \/ dayInYear < DaysBeforeMonth(y, mn + 1))

DateFromDay(day) ==
    LET y == YearFromDay(day)
    IN  day - DayFromYear(y) - DaysBeforeMonth(y, MonthFromDay(day)) + 1

getFullYear(dt) == YearFromDay(Day(LocalTime(dt)))
getMonth(dt) == MonthFromDay(Day(LocalTime(dt)))
getDate(dt) == DateFromDay(Day(LocalTime(dt)))
getHours(dt) == TimeWithinDay(LocalTime(dt)) \div MS_PER_HOUR
getMinutes(dt) == (TimeWithinDay(LocalTime(dt)) \div MS_PER_MIN) % 60
getSeconds(dt) == (TimeWithinDay(LocalTime(dt)) \div 1000) % 60

\* Build a Date "in IST" from a PST timestamp y/m/d hh:mm (fields are numbers).
makeIstFromPortland(y, m, d, hh, mm) ==
    LET utcMs == DateUTC(y, m - 1, d, hh + PST_TO_UTC_H, mm)
        istMs == utcMs + UTC_TO_IST_H * MS_PER_HOUR + UTC_TO_IST_M * MS_PER_MIN
    IN  istMs

\* "YYYY/MM/DD HH:MM" from the host-local fields of dt.
formatDateTime(dt) ==
    LET y  == getFullYear(dt)
        m  == padStart2(getMonth(dt) + 1)
        d  == padStart2(getDate(dt))
        hh == padStart2(getHours(dt))
        mm == padStart2(getMinutes(dt))
    IN  ToString(y) \o "/" \o m \o "/" \o d \o " " \o hh \o ":" \o mm

-----------------------------------------------------------------------------
(* Parsing *)

\* s matches the template tpl: a "d" of tpl stands for \d, any other
\* character for itself.
MatchesTemplate(s, tpl) ==
    /\ Len(s) = Len(tpl)
    /\ \A i \in 1..Len(tpl) :
          IF CharAt(tpl, i) = "d" THEN IsDigit(CharAt(s, i))
          ELSE CharAt(s, i) = CharAt(tpl, i)

IntervalTail == "dddd/dd/dd dd:dd to dddd/dd/dd dd:dd"

\* The match of
\*   /^(.+?):\s*(\d{4})\/(\d{2})\/(\d{2}) (\d{2}):(\d{2}) to (\d{4})\/.../
\* on s: <<>> when there is none, else <<m>> with m[1] the name group and
\* m[2]..m[11] the ten digit groups.  The digit part has a fixed length, so it
\* is the end of s; the lazy name group ends at the first colon that has only
\* white space between it and the digit part.
MatchInterval(s) ==
    LET n     == Len(s)
        tlen  == Len(IntervalTail)
        t     == SubSeq(s, n - tlen + 1, n)
        ok(k) == /\ CharAt(s, k + 1) = ":"
                 /\ \A j \in (k + 2)..(n - tlen) : CharAt(s, j) \in WhiteSpace
                 /\ \A j \in 1..k : CharAt(s, j) \notin LineTerminators
        ks    == {k \in 1..(n - tlen - 1) : ok(k)}
    IN  IF n < tlen + 2 \/ ~MatchesTemplate(t, IntervalTail) \/ ks = {}
        THEN None
        ELSE LET k == CHOOSE x \in ks : \A y \in ks : x <= y
             IN  Some(<<SubSeq(s, 1, k),
                        SubSeq(t, 1, 4), SubSeq(t, 6, 7), SubSeq(t, 9, 10),
                        SubSeq(t, 12, 13), SubSeq(t, 15, 16),
                        SubSeq(t, 21, 24), SubSeq(t, 26, 27), SubSeq(t, 29, 30),
                        SubSeq(t, 32, 33), SubSeq(t, 35, 36)>>)

\* Parse a single interval line "Name: Y/M/D h:m to Y/M/D h:m".
parseIntervalLine(line) ==
    LET mm == MatchInterval(trim(line))
    IN  IF mm = None THEN None
        ELSE LET m == mm[1]
             IN  Some([name  |-> trim(m[1]),
                       start |-> makeIstFromPortland(Number(m[2]), Number(m[3]),
                                     Number(m[4]), Number(m[5]), Number(m[6])),
                       end   |-> makeIstFromPortland(Number(m[7]), Number(m[8]),
                                     Number(m[9]), Number(m[10]), Number(m[11]))])

\* Mutant of InInterval: the end compared with <= (an inclusive end).
InInterval_InclusiveEnd(iv, t) == t >= iv.start /\ t <= iv.end

\* The loop test of findCurrentAndNext.
InInterval(iv, t) == t >= iv.start /\ t < iv.end

\* Mutant of findCurrentAndNext: the loop does not break at the first hit, so
\* the last interval that contains t wins.
findCurrentAndNext_NoBreak(intervals, t) ==
    LET hits == {i \in 1..Len(intervals) :
                    t >= intervals[i].start /\ t < intervals[i].end}
    IN  IF hits = {} THEN [current |-> None, next |-> None]
        ELSE LET i == CHOOSE x \in hits : \A y \in hits : x >= y
             IN  [current |-> Some(intervals[i]),
                  next    |-> IF i + 1 <= Len(intervals)
                              THEN Some(intervals[i + 1]) ELSE None]

\* Find current and next interval for a given "now".
findCurrentAndNext(intervals, t) ==
    LET hits == {i \in 1..Len(intervals) : InInterval(intervals[i], t)}
    IN  IF hits = {} THEN [current |-> None, next |-> None]
        ELSE LET i == CHOOSE x \in hits : \A y \in hits : x <= y
             IN  [current |-> Some(intervals[i]),
                  next    |-> IF i + 1 <= Len(intervals)
                              THEN Some(intervals[i + 1]) ELSE None]

\* Mutant of formatTimeRemaining: the minutes === 0 test is missing.
formatTimeRemaining_ZeroMinutes(end, t) ==
    LET ms           == end - t
        totalMinutes == ms \div 60000
        hours        == totalMinutes \div 60
        minutes      == totalMinutes % 60
    IN  IF ms <= 0 THEN "Ended just now"
        ELSE IF hours <= 0 /\ minutes <= 0 THEN "Ending now"
        ELSE IF hours = 0 THEN ToString(minutes) \o " minutes remaining"
        ELSE ToString(hours) \o " hours " \o ToString(minutes)
                 \o " minutes remaining"

\* Nicely format remaining time.
formatTimeRemaining(end, t) ==
    LET ms           == end - t
        totalMinutes == ms \div 60000
        hours        == totalMinutes \div 60
        minutes      == totalMinutes % 60
    IN  IF ms <= 0 THEN "Ended just now"
        ELSE IF hours <= 0 /\ minutes <= 0 THEN "Ending now"
        ELSE IF hours = 0 THEN ToString(minutes) \o " minutes remaining"
        ELSE IF minutes = 0 THEN ToString(hours) \o " hours remaining"
        ELSE ToString(hours) \o " hours " \o ToString(minutes)
                 \o " minutes remaining"

\* /details\s*:$/i.test(s)
IsDetailsHeader(s) ==
    /\ endsWith(s, ":")
    /\ LET body == SubSeq(s, 1, Len(s) - 1)
           cut  == IF AllWhite(body) THEN ""
                   ELSE SubSeq(body, 1,
                          CHOOSE i \in 1..Len(body) :
                             /\ CharAt(body, i) \notin WhiteSpace
                             /\ \A j \in (i + 1)..Len(body) :
                                   CharAt(body, j) \in WhiteSpace)
       IN  endsWith(toLowerCase(cut), "details")

\* Array.prototype.findIndex / find, 1-based, given the set of indices whose
\* element satisfies the callback; 0 when there is none.
FindIndex(hits) ==
    IF hits = {} THEN 0 ELSE CHOOSE x \in hits : \A y \in hits : x <= y

\* The loop of extractSection: the lines from index i on, up to the break.
RECURSIVE SectionFrom(_, _, _)
SectionFrom(ls, startLabel, i) ==
    IF i > Len(ls) THEN <<>>
    ELSE LET trimmed == trim(ls[i])
         IN  IF IsDetailsHeader(trimmed) /\ ~startsWith(trimmed, startLabel)
             THEN <<>>
             ELSE <<ls[i]>> \o SectionFrom(ls, startLabel, i + 1)

\* Mutant of extractSection: the loop starts at startIdx, not startIdx + 1.
extractSection_FromLabel(ls, startLabel) ==
    LET startIdx ==
            FindIndex({i \in 1..Len(ls) : startsWith(trim(ls[i]), startLabel)})
    IN  IF startIdx = 0 THEN <<>> ELSE SectionFrom(ls, startLabel, startIdx)

\* Extract the lines of the section that starts with a label such as
\* "Thithi details".
extractSection(ls, startLabel) ==
    LET startIdx ==
            FindIndex({i \in 1..Len(ls) : startsWith(trim(ls[i]), startLabel)})
    IN  IF startIdx = 0 THEN <<>> ELSE SectionFrom(ls, startLabel, startIdx + 1)

\* From the section lines, build interval objects for each valid line.
RECURSIVE getIntervalsFromSection(_)
getIntervalsFromSection(sectionLines) ==
    IF sectionLines = <<>> THEN <<>>
    ELSE LET line == trim(Head(sectionLines))
             rest == getIntervalsFromSection(Tail(sectionLines))
         IN  IF line = "" THEN rest
             ELSE IF startsWith(toLowerCase(line), "next ") THEN rest
             ELSE parseIntervalLine(line) \o rest

\* Get a simple "Label : Value" header line.
getHeaderValue(ls, label) ==
    LET lowerLabel == toLowerCase(label)
        idx   == FindIndex({i \in 1..Len(ls) :
                              startsWith(toLowerCase(trim(ls[i])), lowerLabel)})
    IN  IF idx = 0 \/ ls[idx] = "" THEN None
        ELSE LET parts == split(ls[idx], ":")
             IN  IF Len(parts) < 2 THEN None ELSE Some(trim(parts[2]))

\* Extract the raw backend timestamp string.
getBackendTimestamp(ls) ==
    LET idx == FindIndex({i \in 1..Len(ls) :
                  startsWith(toLowerCase(trim(ls[i])), "date and time created")})
    IN  IF idx = 0 \/ ls[idx] = "" THEN None
        ELSE LET parts == split(ls[idx], ":")
             IN  IF Len(parts) < 2 THEN None
                 ELSE Some(trim(join(Tail(parts), ":")))

BackendPattern == "dddd/dd/dd dd:dd:dd"

\* Convert a backend timestamp like "2025/12/01 15:15:42" from PST to IST.
convertBackendTimestampPstToIst(rawTs) ==
    LET plen == Len(BackendPattern)
        at   == {i \in 1..(Len(rawTs) - plen + 1) :
                    MatchesTemplate(SubSeq(rawTs, i, i + plen - 1), BackendPattern)}
    IN  IF at = {} THEN rawTs
        ELSE LET i  == CHOOSE x \in at : \A y \in at : x <= y
                 g  == SubSeq(rawTs, i, i + plen - 1)
                 y  == Number(SubSeq(g, 1, 4))
                 mo == Number(SubSeq(g, 6, 7))
                 d  == Number(SubSeq(g, 9, 10))
                 hh == Number(SubSeq(g, 12, 13))
                 mm == Number(SubSeq(g, 15, 16))
                 ss == Number(SubSeq(g, 18, 19))
                 utcMs == DateUTC6(y, mo - 1, d, hh + PST_TO_UTC_H, mm, ss)
                 dt == utcMs + UTC_TO_IST_H * MS_PER_HOUR
                             + UTC_TO_IST_M * MS_PER_MIN
             IN  ToString(getFullYear(dt)) \o "/" \o padStart2(getMonth(dt) + 1)
                   \o "/" \o padStart2(getDate(dt)) \o " "
                   \o padStart2(getHours(dt)) \o ":" \o padStart2(getMinutes(dt))
                   \o ":" \o padStart2(getSeconds(dt))

-----------------------------------------------------------------------------
(* main(): the page elements, the documents served and the host *)

Categories == {"tithi", "nak", "yoga", "karana"}

\* The startLabel main passes to extractSection for each category.
SectionLabel(c) ==
    CASE c = "tithi"  -> "Thithi details"
      [] c = "nak"    -> "Nakshatram details"
      [] c = "yoga"   -> "Yogam details"
      [] c = "karana" -> "Karanam details"

HeaderIds == {"samvatsaram", "ayanam", "ruthu", "masam", "paksham"}

\* The label main passes to getHeaderValue for each header element.
HeaderLabel(id) ==
    CASE id = "samvatsaram" -> "Samvatsaram"
      [] id = "ayanam"      -> "Ayanam"
      [] id = "ruthu"       -> "Ruthu"
      [] id = "masam"       -> "Masam"
      [] id = "paksham"     -> "Paksham"

CategoryIds ==
    {c \o suffix : c \in Categories, suffix \in {"-current", "-remaining", "-next"}}

ElementIds ==
    {"status", "now-display", "backend-time"} \cup HeaderIds \cup CategoryIds

\* What an element shows before main writes it (the page's own markup).
Untouched == "<page markup>"

\* The en dash (U+2013) main writes for an absent value.  A string of the
\* module cannot hold U+2013; this stand-in begins with a line feed, which no
\* value taken from a line of the text can contain, so it differs from every
\* other text main writes, the hyphen "-" included.
Dash == "\nU+2013"

StatusLoaded ==
    "Panchangam loaded from panchangam.txt (Portland PST -> IST converted)"

StatusError == "Error loading panchangam data. Check console."

\* The instant that a civil time of the source timezone (UTC-8) denotes.
SourceInstant(y, m, d, hh, mm) ==
    DateUTC(y, m - 1, d, hh, mm) + PST_TO_UTC_H * MS_PER_HOUR

IstShift == UTC_TO_IST_H * MS_PER_HOUR + UTC_TO_IST_M * MS_PER_MIN

\* A well-formed almanac.
DocFull ==
    "Samvatsaram : Vishwaavasu\nAyanam : Dakshinayanam\nRuthu : Hemantha\n"
    \o "Masam : Karthika\nPaksham : Krishna\n"
    \o "Date and time created : 2025/12/01 15:15:42\n\n"
    \o "Thithi details:\n"
    \o "Prathama: 2025/12/04 15:14 to 2025/12/05 11:26\n"
    \o "Dwitiya: 2025/12/05 11:26 to 2025/12/06 08:00\n"
    \o "Next Tithi: 2025/12/05 11:26 to 2025/12/06 08:00\n\n"
    \o "Nakshatram details:\n"
    \o "Rohini: 2025/12/04 10:00 to 2025/12/05 09:00\n"
    \o "Mrigashira: 2025/12/05 09:00 to 2025/12/06 07:30\n\n"
    \o "Yogam details:\n"
    \o "Siddha: 2025/12/04 12:00 to 2025/12/05 11:27\n"
    \o "Sadhya: 2025/12/05 11:27 to 2025/12/06 06:00\n\n"
    \o "Karanam details:\n"
    \o "Balava: 2025/12/04 15:14 to 2025/12/05 03:20\n"
    \o "Kaulava: 2025/12/05 03:20 to 2025/12/05 11:26\n"

\* CRLF line endings, a header value with a colon in it, a header without a
\* value, a malformed timestamp, malformed interval lines, missing sections.
DocRagged ==
    "samvatsaram: Vishwaavasu: 2025\r\nAyanam\r\nMasam :\r\n"
    \o "Date and time created : sometime\r\n"
    \o "  Thithi details:  \r\n"
    \o "Prathama: 2025/12/04 15:14 to 2025/12/05 11:26\r\n"
    \o "Dwitiya: 2025/12/05 11:26 to 2025/12/06 8:00\r\n"
    \o "Yogam details :\r\n"
    \o "  Siddha :  2025/12/04 12:00 to 2025/12/05 11:26  \r\n"
    \o "Sadhya 2025/12/05 11:26 to 2025/12/06 06:00"

\* A response with an empty body.
DocEmpty == ""

Documents == {DocFull, DocRagged, DocEmpty}

\* Fixed-offset host timezones, in minutes east of UTC: UTC, and IST, the
\* timezone of the users the script is written for.
HostOffsets == {0, 330}

\* The instants the real clock is observed at: around the first Tithi record,
\* whose civil times denote S and E and whose stored instants are S + IstShift
\* and E + IstShift.
ClockInstants ==
    LET S == SourceInstant(2025, 12, 4, 15, 14)
        E == SourceInstant(2025, 12, 5, 11, 26)
    IN  {S - 1, S, S + IstShift, E - 1, E, E + 90 * MS_PER_MIN + 30000,
         E + IstShift - 1, E + IstShift}

\* The pages main may run in: every element, no status element, a category
\* element missing, several of the elements main tests for missing.
Pages ==
    {ElementIds,
     ElementIds \ {"status"},
     ElementIds \ {"nak-current"},
     ElementIds \ {"now-display", "backend-time", "masam", "yoga-remaining"}}

\* Hosts: a UTC host with the en-US locale, an IST host with the en-GB locale.
Hosts == {[tz |-> 0, locale |-> "en-US"], [tz |-> 330, locale |-> "en-GB"]}

InitialDom(page) == [id \in page |-> Untouched]

MainIdle ==
    /\ pc = "idle"
    /\ locale = "en-US"
    /\ text = ""
    /\ res = "pending"
    /\ clock = 0
    /\ now = None
    /\ samples = 0
    /\ lines = <<>>
    /\ found = [c \in Categories |-> None]
    /\ nowArgs = [c \in Categories |-> <<>>]
    /\ dom = InitialDom(ElementIds)

FnIdle == fn = "none" /\ input = None /\ output = None

\* main() has been called and is suspended at `await fetch(...)`.
Init ==
    /\ pc = "fetch"
    /\ \E h \in Hosts : tz = h.tz /\ locale = h.locale
    /\ text \in Documents
    /\ res = "pending"
    /\ clock = CHOOSE c \in ClockInstants : \A d \in ClockInstants : c <= d
    /\ now = None
    /\ samples = 0
    /\ lines = <<>>
    /\ found = [c \in Categories |-> None]
    /\ nowArgs = [c \in Categories |-> <<>>]
    /\ \E page \in Pages : dom = InitialDom(page)
    /\ FnIdle

\* Real time passes, at any point of main.
Tick ==
    /\ pc # "done"
    /\ \E c \in ClockInstants : c > clock /\ clock' = c
    /\ UNCHANGED <<pc, tz, locale, text, res, now, samples, lines, found, nowArgs,
                   dom, fn, input, output>>

\* Mutant of AfterFetch: the `if (!res.ok) throw` of line 185 is missing.
AfterFetch_NoOkCheck(r) == IF r = "rejected" THEN "catch" ELSE "text"

\* Where main continues once fetch has settled with outcome r: line 185 throws
\* when the response is not ok, and a rejection throws at the await.
AfterFetch(r) == IF r = "ok" THEN "text" ELSE "catch"

\* `await fetch("panchangam.txt")` settles with a response.
FetchResolves ==
    /\ pc = "fetch"
    /\ \E r \in {"ok", "notok"} : res' = r /\ pc' = AfterFetch(r)
    /\ UNCHANGED <<tz, locale, text, clock, now, samples, lines, found, nowArgs,
                   dom, fn, input, output>>

\* `await fetch("panchangam.txt")` rejects.
FetchRejects ==
    /\ pc = "fetch"
    /\ res' = "rejected"
    /\ pc' = AfterFetch("rejected")
    /\ UNCHANGED <<tz, locale, text, clock, now, samples, lines, found, nowArgs,
                   dom, fn, input, output>>

\* `await res.text()` rejects: the body could not be read.  The response
\* stays what it was (res.ok is true).
ReadTextRejects ==
    /\ pc = "text"
    /\ pc' = "catch"
    /\ UNCHANGED <<tz, locale, text, res, clock, now, samples, lines, found,
                   nowArgs, dom, fn, input, output>>

\* value || "–"
OrDash(v) == IF v = None \/ v = Some("") THEN Dash ELSE v[1]

\* The backend-time element's text for the lines ls.
BackendText(ls) ==
    LET rawBackendTs == getBackendTimestamp(ls)
        backendTsIst == IF rawBackendTs = None \/ rawBackendTs = Some("")
                        THEN None
                        ELSE Some(convertBackendTimestampPstToIst(rawBackendTs[1]))
    IN  IF backendTsIst = None \/ backendTsIst = Some("") THEN ""
        ELSE "(Panchangam back-end time stamp (IST): " \o backendTsIst[1] \o ")"

\* `await res.text()` resolves; lines 187-229 split the text and write those of
\* the five headers and the backend time stamp that the page has an element for.
ReadText ==
    /\ pc = "text"
    /\ LET ls == splitLines(text)
       IN  /\ lines' = ls
           /\ dom' = [id \in DOMAIN dom |->
                        IF id \in HeaderIds
                        THEN OrDash(getHeaderValue(ls, HeaderLabel(id)))
                        ELSE IF id = "backend-time" THEN BackendText(ls)
                        ELSE dom[id]]
    /\ pc' = "now"
    /\ UNCHANGED <<tz, locale, text, res, clock, now, samples, found, nowArgs, fn,
                   input, output>>

\* now.toLocaleString(): the host's wall clock in the host locale's default
\* format: "M/D/YYYY, h:mm:ss AM" for en-US, "DD/MM/YYYY, HH:mm:ss" for en-GB.
toLocaleString(dt) ==
    LET y  == ToString(getFullYear(dt))
        mo == getMonth(dt) + 1
        d  == getDate(dt)
        hh == getHours(dt)
        ms == ":" \o padStart2(getMinutes(dt)) \o ":" \o padStart2(getSeconds(dt))
        h12 == IF hh % 12 = 0 THEN 12 ELSE hh % 12
    IN  IF locale = "en-US"
        THEN ToString(mo) \o "/" \o ToString(d) \o "/" \o y \o ", "
                 \o ToString(h12) \o ms \o (IF hh < 12 THEN " AM" ELSE " PM")
        ELSE padStart2(d) \o "/" \o padStart2(mo) \o "/" \o y \o ", "
                 \o padStart2(hh) \o ms

\* const now = new Date(), and the now display if the page has one
\* (lines 232-236).
SampleNow ==
    /\ pc = "now"
    /\ now' = Some(clock)
    /\ samples' = samples + 1
    /\ dom' = [id \in DOMAIN dom |->
                 IF id = "now-display"
                 THEN "Current time (your browser, IST): " \o toLocaleString(clock)
                 ELSE dom[id]]
    /\ pc' = "tithi"
    /\ UNCHANGED <<tz, locale, text, res, clock, lines, found, nowArgs, fn, input,
                   output>>

\* The intervals main builds for category c.
IntervalsOf(ls, c) == getIntervalsFromSection(extractSection(ls, SectionLabel(c)))

\* Mutant of NowArgument: each use reads the clock again (new Date()).
NowArgument_ReadClock == clock

\* The instant main hands to findCurrentAndNext and formatTimeRemaining.
NowArgument == now[1]

NextPc(c) ==
    CASE c = "tithi"  -> "nak"
      [] c = "nak"    -> "yoga"
      [] c = "yoga"   -> "karana"
      [] c = "karana" -> "status"

\* One category's block of main (lines 238-251, 253-266, 268-281, 283-296):
\* the findCurrentAndNext call, then three assignments
\*   document.getElementById(id).textContent = value
\* in order.  An assignment evaluates its value and then throws a TypeError
\* when the page has no element id; main continues in its catch block.
RenderCategory(c) ==
    /\ pc = c
    /\ LET t    == NowArgument
           r    == findCurrentAndNext(IntervalsOf(lines, c), t)
           ids  == <<c \o "-current", c \o "-remaining", c \o "-next">>
           vals == <<IF r.current # None THEN r.current[1].name ELSE "Not in range",
                     IF r.current # None
                     THEN formatTimeRemaining(r.current[1].end, t) ELSE "",
                     IF r.next # None
                     THEN r.next[1].name \o " (starts: "
                             \o formatDateTime(r.next[1].start) \o ")"
                     ELSE Dash>>
           missing == {k \in 1..3 : ids[k] \notin DOMAIN dom}
           \* the assignment that throws; 4 when none does
           thrower == IF missing = {} THEN 4
                      ELSE CHOOSE k \in missing : \A j \in missing : k <= j
       IN  /\ found' = [found EXCEPT ![c] = Some(r)]
           /\ nowArgs' = [nowArgs EXCEPT ![c] =
                            IF r.current # None /\ thrower >= 2
                            THEN <<t, t>> ELSE <<t>>]
           /\ dom' = [id \in DOMAIN dom |->
                        IF \E k \in 1..(thrower - 1) : ids[k] = id
                        THEN vals[CHOOSE k \in 1..3 : ids[k] = id]
                        ELSE dom[id]]
           /\ pc' = IF thrower = 4 THEN NextPc(c) ELSE "catch"
    /\ UNCHANGED <<tz, locale, text, res, clock, now, samples, lines, fn, input,
                   output>>

RenderTithi == RenderCategory("tithi")
RenderNakshatra == RenderCategory("nak")
RenderYogam == RenderCategory("yoga")
RenderKaranam == RenderCategory("karana")

\* if (el) el.textContent = v
SetIfPresent(d, el, v) == [id \in DOMAIN d |-> IF id = el THEN v ELSE d[id]]

\* Lines 298-300.
SetStatus ==
    /\ pc = "status"
    /\ dom' = SetIfPresent(dom, "status", StatusLoaded)
    /\ pc' = "done"
    /\ UNCHANGED <<tz, locale, text, res, clock, now, samples, lines, found,
                   nowArgs, fn, input, output>>

\* The catch block, lines 302-307.
Catch ==
    /\ pc = "catch"
    /\ dom' = SetIfPresent(dom, "status", StatusError)
    /\ pc' = "done"
    /\ UNCHANGED <<tz, locale, text, res, clock, now, samples, lines, found,
                   nowArgs, fn, input, output>>

Next ==
    \/ Tick
    \/ FetchResolves
    \/ FetchRejects
    \/ ReadTextRejects
    \/ ReadText
    \/ SampleNow
    \/ RenderTithi
    \/ RenderNakshatra
    \/ RenderYogam
    \/ RenderKaranam
    \/ SetStatus
    \/ Catch

Spec == Init /\ [][Next]_vars

-----------------------------------------------------------------------------
(* The pure functions, each applied to inputs drawn from bounded sets *)

SeqsUpTo(S, n) == UNION {[1..k -> S] : k \in 0..n}

restVars == <<pc, tz, locale, text, res, clock, now, samples, lines, found, nowArgs, dom,
              fn, input>>

\* --- findCurrentAndNext ---

MaxIntervals == 3
MaxTime == 2

IntervalName(i) == "I" \o ToString(i)

\* Every sequence of at most MaxIntervals intervals with start and end in
\* 0..MaxTime (parseIntervalLine does not order start and end, nor the lines),
\* and every now in 0..MaxTime.
FindInputs ==
    {[intervals |-> [i \in 1..Len(p) |->
                       [name |-> IntervalName(i), start |-> p[i][1], end |-> p[i][2]]],
      now |-> t] :
        p \in SeqsUpTo((0..MaxTime) \X (0..MaxTime), MaxIntervals),
        t \in 0..MaxTime}

InitFind ==
    /\ MainIdle /\ tz = 0
    /\ fn = "findCurrentAndNext" /\ input \in FindInputs /\ output = None

ApplyFind ==
    /\ fn = "findCurrentAndNext" /\ output = None
    /\ output' = Some(findCurrentAndNext(input.intervals, input.now))
    /\ UNCHANGED restVars

SpecFind == InitFind /\ [][ApplyFind]_vars

\* --- formatTimeRemaining ---

MaxHours == 2

\* end - now: whole hours and minutes plus a part of a minute, and the past.
RemainingDeltas ==
    {h * MS_PER_HOUR + m * MS_PER_MIN + r :
        h \in 0..MaxHours, m \in {0, 1, 30, 59}, r \in {0, 1, 59999}}
    \cup {0 - 1, 0 - MS_PER_MIN, 0 - MS_PER_HOUR}

RemainingInputs ==
    {[end |-> t + delta, now |-> t] : delta \in RemainingDeltas, t \in {0, 12345}}

InitRemaining ==
    /\ MainIdle /\ tz = 0
    /\ fn = "formatTimeRemaining" /\ input \in RemainingInputs /\ output = None

ApplyRemaining ==
    /\ fn = "formatTimeRemaining" /\ output = None
    /\ output' = Some(formatTimeRemaining(input.end, input.now))
    /\ UNCHANGED restVars

SpecRemaining == InitRemaining /\ [][ApplyRemaining]_vars

\* --- formatDateTime(makeIstFromPortland(T)) ---

CivilTimes ==
    {[y |-> 2025, m |-> md[1], d |-> md[2], hh |-> hh, mm |-> mm] :
        md \in {<<11, 30>>, <<12, 4>>, <<12, 31>>},
        hh \in 0..23, mm \in {0, 29, 30, 50, 59}}

InitConvert ==
    /\ MainIdle /\ tz \in HostOffsets
    /\ fn = "convert" /\ input \in CivilTimes /\ output = None

ApplyConvert ==
    /\ fn = "convert" /\ output = None
    /\ output' = Some(formatDateTime(
                        makeIstFromPortland(input.y, input.m, input.d,
                                            input.hh, input.mm)))
    /\ UNCHANGED restVars

SpecConvert == InitConvert /\ [][ApplyConvert]_vars

\* --- extractSection ---

MaxLines == 3

SectionLines ==
    {"Thithi details:", "  Thithi details: x ", "Yogam details:", "Yogam DETAILS :",
     "Prathama: a", "the details: follow", ""}

InitSection ==
    /\ MainIdle /\ tz = 0
    /\ fn = "extractSection"
    /\ input \in [lines : SeqsUpTo(SectionLines, MaxLines),
                  label : {"Thithi details", "Yogam details"}]
    /\ output = None

ApplySection ==
    /\ fn = "extractSection" /\ output = None
    /\ output' = Some(extractSection(input.lines, input.label))
    /\ UNCHANGED restVars

SpecSection == InitSection /\ [][ApplySection]_vars

\* --- getHeaderValue ---

HeaderLines ==
    {"Masam : Karthika", "masam: a:b", "Masam", "  MASAM :  x  ", "Masam:",
     "Ruthu : Hemantha", ""}

InitHeader ==
    /\ MainIdle /\ tz = 0
    /\ fn = "getHeaderValue"
    /\ input \in [lines : SeqsUpTo(HeaderLines, MaxLines), label : {"Masam", "Ruthu"}]
    /\ output = None

ApplyHeader ==
    /\ fn = "getHeaderValue" /\ output = None
    /\ output' = Some(getHeaderValue(input.lines, input.label))
    /\ UNCHANGED restVars

SpecHeader == InitHeader /\ [][ApplyHeader]_vars

-----------------------------------------------------------------------------
(* Properties of findCurrentAndNext and formatTimeRemaining *)

Applied(f) == fn = f /\ output # None

\* The condition the claims state: start <= t < end.
Covers(iv, t) == iv.start <= t /\ t < iv.end

\* C1: findCurrentAndNext returns as current the first interval in index order
\* with start <= now < end, and as next the interval at the following index,
\* or null when current is the last entry; when no interval satisfies
\* start <= now < end, current and next are both null.
C1_FirstCurrentAndSuccessor ==
    Applied("findCurrentAndNext") =>
        LET ivs == input.intervals
            t   == input.now
            r   == output[1]
        IN  /\ (\A i \in 1..Len(ivs) : ~Covers(ivs[i], t))
                  => r.current = None /\ r.next = None
            /\ \A i \in 1..Len(ivs) :
                  (Covers(ivs[i], t) /\ \A j \in 1..(i - 1) : ~Covers(ivs[j], t))
                      => /\ r.current = Some(ivs[i])
                         /\ r.next = IF i = Len(ivs) THEN None ELSE Some(ivs[i + 1])

\* C1 witness: three intervals, the first does not contain now, the second and
\* the third both do; the second is current and the third is next.
C1_Witness ==
    /\ Applied("findCurrentAndNext")
    /\ Len(input.intervals) = 3
    /\ ~Covers(input.intervals[1], input.now)
    /\ Covers(input.intervals[2], input.now)
    /\ Covers(input.intervals[3], input.now)
    /\ output[1].current = Some(input.intervals[2])
    /\ output[1].next = Some(input.intervals[3])

\* C4 as stated: for every interval iv of the sequence, now = iv.end means iv is
\* not returned as current, and now = iv.start means iv is returned as current.
C4_AsStated ==
    Applied("findCurrentAndNext") =>
        \A i \in 1..Len(input.intervals) :
            LET iv == input.intervals[i]
            IN  /\ input.now = iv.end => output[1].current # Some(iv)
                /\ input.now = iv.start => output[1].current = Some(iv)

\* C4 amended: now = iv.end means iv is not returned as current; now = iv.start
\* means iv is returned as current provided iv.start < iv.end and no interval at
\* an earlier index contains now.
C4_Boundaries ==
    Applied("findCurrentAndNext") =>
        \A i \in 1..Len(input.intervals) :
            LET iv == input.intervals[i]
            IN  /\ input.now = iv.end => output[1].current # Some(iv)
                /\ ( /\ input.now = iv.start
                     /\ iv.start < iv.end
                     /\ \A j \in 1..(i - 1) : ~Covers(input.intervals[j], input.now) )
                      => output[1].current = Some(iv)

\* C4 witness: now is the end of the first interval and the start of the
\* second, and the second is current.
C4_Witness ==
    /\ Applied("findCurrentAndNext")
    /\ Len(input.intervals) >= 2
    /\ input.intervals[1].start < input.intervals[1].end
    /\ input.now = input.intervals[1].end
    /\ input.now = input.intervals[2].start
    /\ output[1].current = Some(input.intervals[2])

\* C10: formatTimeRemaining(end, now) is "Ended just now" when end <= now,
\* "Ending now" when end > now and the floor of the remaining minutes is 0, and
\* otherwise "<hours> hours <minutes> minutes remaining" with hours =
\* floor(total / 60) and minutes = total mod 60, the hours phrase left out when
\* hours is 0 and the minutes phrase when minutes is 0.
C10_RemainingText ==
    Applied("formatTimeRemaining") =>
        LET total   == (input.end - input.now) \div MS_PER_MIN
            hours   == total \div 60
            minutes == total % 60
            hoursPhrase   == IF hours = 0 THEN "" ELSE ToString(hours) \o " hours "
            minutesPhrase == IF minutes = 0 THEN ""
                             ELSE ToString(minutes) \o " minutes "
        IN  output[1] =
                IF input.end <= input.now THEN "Ended just now"
                ELSE IF total = 0 THEN "Ending now"
                ELSE hoursPhrase \o minutesPhrase \o "remaining"

\* C10 witness: 90 minutes (and a millisecond) remain.
C10_Witness ==
    /\ Applied("formatTimeRemaining")
    /\ input.end - input.now = 90 * MS_PER_MIN + 1
    /\ output[1] = "1 hours 30 minutes remaining"

-----------------------------------------------------------------------------
(* Properties of the conversion and of the line parser *)

DaysInMonth(y, m) ==
    IF m = 2 THEN (IF InLeapYear(y) THEN 29 ELSE 28)
    ELSE IF m \in {4, 6, 9, 11} THEN 30 ELSE 31

\* The civil time 13 hours 30 minutes after T, carried field by field.
ShiftedBy1330(T) ==
    LET minutes == T.mm + 30
        hours   == T.hh + 13 + (minutes \div 60)
        date    == T.d + (hours \div 24)
        over    == date > DaysInMonth(T.y, T.m)
        month   == IF over THEN T.m + 1 ELSE T.m
    IN  [y  |-> IF month > 12 THEN T.y + 1 ELSE T.y,
         m  |-> IF month > 12 THEN 1 ELSE month,
         d  |-> IF over THEN 1 ELSE date,
         hh |-> hours % 24,
         mm |-> minutes % 60]

TwoDigits(n) == IF n < 10 THEN "0" \o ToString(n) ELSE ToString(n)

CivilText(T) ==
    ToString(T.y) \o "/" \o TwoDigits(T.m) \o "/" \o TwoDigits(T.d)
        \o " " \o TwoDigits(T.hh) \o ":" \o TwoDigits(T.mm)

\* C3: for every source-timezone civil time T,
\* formatDateTime(makeIstFromPortland(T)) is T shifted by exactly 13 hours 30
\* minutes, with rollover carried and every field padded to 2 digits.
C3_ShiftedBy1330 ==
    Applied("convert") => output[1] = CivilText(ShiftedBy1330(input))

\* What does hold of the conversion: the text is T shifted by 13 hours 30
\* minutes plus the host's own offset from UTC, so it is the IST wall clock
\* on a host whose local time is UTC.
ConvertOnUtcHost ==
    (Applied("convert") /\ tz = 0) => output[1] = CivilText(ShiftedBy1330(input))

\* "details", optional white space, ":" at the end of s, in any letter case.
EndsInDetailsColon(s) ==
    \E k \in 0..(Len(s) - 1) :
        /\ CharAt(s, Len(s)) = ":"
        /\ AllWhite(SubSeq(s, Len(s) - k, Len(s) - 1))
        /\ endsWith(toLowerCase(SubSeq(s, 1, Len(s) - 1 - k)), "details")

\* The lines strictly between the first line of ls that starts with label and
\* the next line whose index is in closing and that does not start with label.
SectionBetween(ls, label, closing) ==
    LET Starts(i) == startsWith(trim(ls[i]), label)
        labels    == {i \in 1..Len(ls) : Starts(i)}
    IN  IF labels = {} THEN <<>>
        ELSE LET first == CHOOSE i \in labels : \A j \in labels : i <= j
                 stops == {j \in (first + 1)..Len(ls) :
                              j \in closing /\ ~Starts(j)}
                 stop  == IF stops = {} THEN Len(ls) + 1
                          ELSE CHOOSE j \in stops : \A k \in stops : j <= k
             IN  SubSeq(ls, first + 1, stop - 1)

EndsInLiteralDetailsColon(s) == endsWith(toLowerCase(s), "details:")

\* C8 as stated: extractSection returns the empty sequence when no trimmed line
\* starts with the label, and otherwise the lines strictly between the first
\* line that starts with the label and the next line that ends in "details:"
\* (in any case) and does not start with the label, or up to the end.
C8_AsStated ==
    Applied("extractSection") =>
        output[1] = SectionBetween(input.lines, input.label,
                        {j \in 1..Len(input.lines) :
                            EndsInLiteralDetailsColon(trim(input.lines[j]))})

\* C8 amended: the closing line is one whose trimmed text ends in "details",
\* optional white space and ":" (in any case).
C8_SectionLines ==
    Applied("extractSection") =>
        output[1] = SectionBetween(input.lines, input.label,
                        {j \in 1..Len(input.lines) :
                            EndsInDetailsColon(trim(input.lines[j]))})

\* C8 witness: a one-line section closed by another section's header.
C8_Witness ==
    /\ Applied("extractSection")
    /\ input.label = "Thithi details"
    /\ input.lines = <<"Thithi details:", "Prathama: a", "Yogam details:">>
    /\ output[1] = <<"Prathama: a">>

\* C9: getHeaderValue returns null when no trimmed line starts with the label
\* (in any case) or the matched line has no colon, and otherwise everything
\* after the first colon of the first matching line, trimmed, further colons
\* included.
C9_HeaderValue ==
    Applied("getHeaderValue") =>
        LET ls         == input.lines
            Matches(i) == startsWith(toLowerCase(trim(ls[i])),
                                     toLowerCase(input.label))
            hits       == {i \in 1..Len(ls) : Matches(i)}
        IN  IF hits = {} THEN output[1] = None
            ELSE LET line   == ls[CHOOSE i \in hits : \A j \in hits : i <= j]
                     colons == {k \in 1..Len(line) : CharAt(line, k) = ":"}
                 IN  IF colons = {} THEN output[1] = None
                     ELSE LET k == CHOOSE x \in colons : \A y \in colons : x <= y
                          IN  output[1] = Some(trim(SubSeq(line, k + 1, Len(line))))

-----------------------------------------------------------------------------
(* Properties of main() *)

\* The absolute instants S and E that the civil times of an interval line
\* denote in the source timezone; m is the line's MatchInterval.
SourceStart(m) ==
    SourceInstant(Number(m[2]), Number(m[3]), Number(m[4]), Number(m[5]),
                  Number(m[6]))

SourceEnd(m) ==
    SourceInstant(Number(m[7]), Number(m[8]), Number(m[9]), Number(m[10]),
                  Number(m[11]))

\* C2: a record is selected as current only if S <= now < E, where S and E are
\* the absolute instants its civil times denote in the source timezone and now
\* is the instant main sampled from the real clock.
C2_CurrentAtPresentMoment ==
    \A c \in Categories :
        (found[c] # None /\ found[c][1].current # None) =>
            \A i \in 1..Len(lines) :
                LET mm == MatchInterval(trim(lines[i]))
                IN  (mm # None /\ parseIntervalLine(lines[i]) = found[c][1].current)
                        => SourceStart(mm[1]) <= now[1] /\ now[1] < SourceEnd(mm[1])

\* C5: when the fetch succeeds and the text read is empty, main ends without
\* the success status and has rendered nothing.
C5_EmptyTextIsAnError ==
    (pc = "done" /\ res = "ok" /\ lines # <<>> /\ text = "") =>
        \A id \in DOMAIN dom :
            IF id = "status" THEN dom[id] # StatusLoaded ELSE dom[id] = Untouched

\* C6: when the fetch fails (the request rejects or the response is not ok),
\* main goes to its catch block, the status indicator of the page becomes the
\* load-error text, no other element is written and the success status is
\* never set.
C6_FetchFailure ==
    res \in {"notok", "rejected"} =>
        /\ pc \in {"catch", "done"}
        /\ \A id \in DOMAIN dom :
              IF id = "status"
              THEN /\ dom[id] # StatusLoaded
                   /\ pc = "done" => dom[id] = StatusError
              ELSE dom[id] = Untouched

\* C6 witness: the response was not ok and main has finished.
C6_Witness ==
    /\ res = "notok"
    /\ pc = "done"
    /\ DOMAIN dom = ElementIds
    /\ dom["status"] = StatusError

\* C7: the clock is read once per load, and every findCurrentAndNext and
\* formatTimeRemaining call gets that one instant.
C7_OneNow ==
    /\ samples <= 1
    /\ ((\E c \in Categories : found[c] # None) \/ pc \in Categories) => samples = 1
    /\ \A c \in Categories :
          /\ found[c] # None => Len(nowArgs[c]) >= 1
          /\ \A k \in 1..Len(nowArgs[c]) : now # None /\ nowArgs[c][k] = now[1]

\* C7 witness: all four categories rendered, formatTimeRemaining called for
\* each, and the real clock has moved on since now was sampled.
C7_Witness ==
    /\ pc = "done"
    /\ DOMAIN dom = ElementIds
    /\ dom["status"] = StatusLoaded
    /\ \A c \in Categories : Len(nowArgs[c]) = 2
    /\ clock > now[1]

====
